---------------------------- MODULE Spec2Model ----------------------------
(***************************************************************************)
(* Model of uweb3/ext_lib/underdark/libs/safestring/__init__.py: the      *)
(* Basesafestring family of context-tagged strings, their constructors,   *)
(* the + operator with its __upgrade__ rule, format, and the escape and   *)
(* unescape routine of every context.                                     *)
(*                                                                         *)
(* A text is a sequence of characters; a character is a one-character     *)
(* string, except the backquote, written "U+0060", and the non-ASCII      *)
(* characters the model needs, "U+2028", "U+226A" and "U+FFFD".  A Python *)
(* object is a record [type, chars, exc]: type is "str", "dict", the name *)
(* of a safestring class, or "raise" for a call that ended in the         *)
(* exception exc.                                                          *)
(***************************************************************************)
EXTENDS Naturals, Sequences, FiniteSets, TLC

VARIABLES
  op,      \* the operation made last: "start", "new", "add", "format",
           \* "escape", "unescape" or "roundtrip"
  cls,     \* the class it was called on
  self,    \* the receiver of + and format, the argument of unescape
  other,   \* the right operand of +
  args,    \* the positional arguments of format
  kwargs,  \* the keyword arguments of format, <<[key, val], ...>>
  data,    \* the text given to a constructor or to escape
  values,  \* the tuple of values given to MYSQLsafestring
  flag,    \* the unsafe keyword of a constructor call: "absent", "True", "False"
  result,  \* what the operation returned or raised
  cost     \* the number of operands the run has taken

vars == <<op, cls, self, other, args, kwargs, data, values, flag, result, cost>>

-----------------------------------------------------------------------------
(* Python objects *)

Str(s) == [type |-> "str", chars |-> s, exc |-> ""]

Inst(c, s) == [type |-> c, chars |-> s, exc |-> ""]

Dict == [type |-> "dict", chars |-> <<>>, exc |-> ""]

\* the empty bytes object
Bytes == [type |-> "bytes", chars |-> <<>>, exc |-> ""]

Raise(e) == [type |-> "raise", chars |-> <<>>, exc |-> e]

Raised(x) == x.type = "raise"

None == [type |-> "None", chars |-> <<>>, exc |-> ""]

Classes ==
  {"Basesafestring", "MYSQLsafestring", "HTMLsafestring", "JSONsafestring",
   "URLqueryargumentsafestring", "URLsafestring", "EmailAddresssafestring"}

IsSafestring(x) == x.type \in Classes

-----------------------------------------------------------------------------
(* Text helpers: the str methods the module and its libraries call *)

Drop(s, n) == SubSeq(s, n + 1, Len(s))

StartsWith(s, p) == Len(s) >= Len(p) /\ SubSeq(s, 1, Len(p)) = p

Contains(s, c) == \E i \in 1..Len(s) : s[i] = c

\* str.replace(old, new): every non-overlapping occurrence, left to right
RECURSIVE Replace(_, _, _)
Replace(s, old, new) ==
  IF Len(s) < Len(old) THEN s
  ELSE IF StartsWith(s, old)
       THEN new \o Replace(Drop(s, Len(old)), old, new)
       ELSE <<Head(s)>> \o Replace(Tail(s), old, new)

\* the length of the longest prefix of s whose characters are all in set
RECURSIVE RunLen(_, _)
RunLen(s, set) ==
  IF s = <<>> \/ Head(s) \notin set THEN 0 ELSE 1 + RunLen(Tail(s), set)

\* the index of the first character of s that is in set, 0 if none
RECURSIVE FirstIn(_, _)
FirstIn(s, set) ==
  IF s = <<>> THEN 0
  ELSE IF Head(s) \in set THEN 1
  ELSE LET r == FirstIn(Tail(s), set) IN IF r = 0 THEN 0 ELSE r + 1

\* printable ASCII, code points 32..126 in order
Ascii ==
  <<" ", "!", "\"", "#", "$", "%", "&", "'", "(", ")", "*", "+", ",", "-",
    ".", "/", "0", "1", "2", "3", "4", "5", "6", "7", "8", "9", ":", ";",
    "<", "=", ">", "?", "@", "A", "B", "C", "D", "E", "F", "G", "H", "I",
    "J", "K", "L", "M", "N", "O", "P", "Q", "R", "S", "T", "U", "V", "W",
    "X", "Y", "Z", "[", "\\", "]", "^", "_", "U+0060", "a", "b", "c", "d", "e",
    "f", "g", "h", "i", "j", "k", "l", "m", "n", "o", "p", "q", "r", "s",
    "t", "u", "v", "w", "x", "y", "z", "{", "|", "}", "~">>

Digits == {Ascii[i] : i \in 17..26}

Letters == {Ascii[i] : i \in 34..59} \cup {Ascii[i] : i \in 66..91}

HexDigits == <<"0", "1", "2", "3", "4", "5", "6", "7", "8", "9",
               "A", "B", "C", "D", "E", "F">>

LowerHex == <<"0", "1", "2", "3", "4", "5", "6", "7", "8", "9",
              "a", "b", "c", "d", "e", "f">>

IsHex(c) == \E i \in 1..16 : HexDigits[i] = c \/ LowerHex[i] = c

HexVal(c) == (CHOOSE i \in 1..16 : HexDigits[i] = c \/ LowerHex[i] = c) - 1

\* ord(c) of the ASCII characters of the model
Ord(c) ==
  CASE c = "\t" -> 9
    [] c = "\n" -> 10
    [] c = "\f" -> 12
    [] c = "\r" -> 13
    [] OTHER -> (CHOOSE i \in 1..Len(Ascii) : Ascii[i] = c) + 31

IsAscii(c) == c \in {"\t", "\n", "\f", "\r"} \/ \E i \in 1..Len(Ascii) : Ascii[i] = c

HasChr(n) == n \in {9, 10, 12, 13} \/ n \in 32..126

\* chr(n) where HasChr(n)
Chr(n) ==
  CASE n = 9 -> "\t"
    [] n = 10 -> "\n"
    [] n = 12 -> "\f"
    [] n = 13 -> "\r"
    [] OTHER -> Ascii[n - 31]

-----------------------------------------------------------------------------
(* HTMLsafestring: html.escape and html.unescape *)

\* an escape that writes the four references of < > " ' and leaves "&" as it
\* is, so that a text holding a reference is not told from its own escape
HtmlEscapeKeepAmp(s) ==
  LET s2 == Replace(s, <<"<">>, <<"&", "l", "t", ";">>)
      s3 == Replace(s2, <<">">>, <<"&", "g", "t", ";">>)
      s4 == Replace(s3, <<"\"">>, <<"&", "q", "u", "o", "t", ";">>)
  IN Replace(s4, <<"'">>, <<"&", "#", "x", "2", "7", ";">>)

\* html.escape(data): the five replacements, "&" first
HtmlEscape(s) ==
  LET s1 == Replace(s, <<"&">>, <<"&", "a", "m", "p", ";">>)
      s2 == Replace(s1, <<"<">>, <<"&", "l", "t", ";">>)
      s3 == Replace(s2, <<">">>, <<"&", "g", "t", ";">>)
      s4 == Replace(s3, <<"\"">>, <<"&", "q", "u", "o", "t", ";">>)
  IN Replace(s4, <<"'">>, <<"&", "#", "x", "2", "7", ";">>)

\* html.entities.html5, the names that the characters of the model's texts
\* can spell: the ones html.escape writes, with their forms that need no
\* semicolon, and the names over the letters l and t
Html5 ==
  {<<<<"a", "m", "p", ";">>, "&">>, <<<<"a", "m", "p">>, "&">>,
   <<<<"l", "t", ";">>, "<">>, <<<<"l", "t">>, "<">>,
   <<<<"g", "t", ";">>, ">">>, <<<<"g", "t">>, ">">>,
   <<<<"q", "u", "o", "t", ";">>, "\"">>, <<<<"q", "u", "o", "t">>, "\"">>,
   <<<<"l", "l", ";">>, "U+226A">>}

InHtml5(name) == \E e \in Html5 : e[1] = name

Html5Char(name) == (CHOOSE e \in Html5 : e[1] = name)[2]

\* the characters a named reference is made of: [^\t\n\f <&#;]
NotNameChars == {"\t", "\n", "\f", " ", "<", "&", "#", ";"}

RECURSIVE NameLen(_, _)
NameLen(s, max) ==
  IF s = <<>> \/ max = 0 \/ Head(s) \in NotNameChars THEN 0
  ELSE 1 + NameLen(Tail(s), max - 1)

\* the value of a run of digits in the given base
RECURSIVE NumVal(_, _)
NumVal(s, base) ==
  IF s = <<>> THEN 0
  ELSE NumVal(SubSeq(s, 1, Len(s) - 1), base) * base + HexVal(s[Len(s)])

\* the longest proper prefix of a name, of two characters or more, that is in
\* html5; 0 if none
RECURSIVE Html5Prefix(_, _)
Html5Prefix(name, x) ==
  IF x < 2 THEN 0
  ELSE IF InHtml5(SubSeq(name, 1, x)) THEN x
  ELSE Html5Prefix(name, x - 1)

\* html._replace_charref for a named reference
ReplaceNamed(name) ==
  IF InHtml5(name) THEN <<Html5Char(name)>>
  ELSE LET x == Html5Prefix(name, Len(name) - 1)
       IN IF x > 0 THEN <<Html5Char(SubSeq(name, 1, x))>> \o Drop(name, x)
          ELSE <<"&">> \o name

\* html._replace_charref for a numeric reference below 128: the character,
\* nothing for an invalid code point, U+FFFD for 0 (the model's texts spell
\* no reference to a character of 128 or more)
ReplaceNumeric(num) ==
  IF HasChr(num) THEN <<Chr(num)>>
  ELSE IF num \in 1..127 THEN <<>>
  ELSE <<"U+FFFD">>

\* the length of the character reference that starts s (after its "&"), as
\* html._charref matches it: &(#[0-9]+;?|#[xX][0-9a-fA-F]+;?|[^\t\n\f <&#;]{1,32};?)
\* and 0 if none does
CharrefLen(s) ==
  LET semi(n) == IF Len(s) > n /\ s[n + 1] = ";" THEN n + 1 ELSE n
      dec == IF s # <<>> /\ Head(s) = "#" THEN RunLen(Tail(s), Digits) ELSE 0
      hex == IF Len(s) >= 2 /\ s[1] = "#" /\ s[2] \in {"x", "X"}
             THEN RunLen(Drop(s, 2), {c \in Digits \cup Letters : IsHex(c)})
             ELSE 0
      name == NameLen(s, 32)
  IN IF dec > 0 THEN semi(1 + dec)
     ELSE IF hex > 0 THEN semi(2 + hex)
     ELSE IF name > 0 THEN semi(name)
     ELSE 0

\* the text a matched reference ref (without its "&") is replaced by
ReplaceCharref(ref) ==
  LET body == IF ref[Len(ref)] = ";" THEN SubSeq(ref, 1, Len(ref) - 1) ELSE ref
  IN IF ref[1] = "#"
     THEN IF ref[2] \in {"x", "X"}
          THEN ReplaceNumeric(NumVal(Drop(body, 2), 16))
          ELSE ReplaceNumeric(NumVal(Drop(body, 1), 10))
     ELSE ReplaceNamed(ref)

\* html.unescape(data): one pass, left to right, each reference replaced once
RECURSIVE HtmlUnescape(_)
HtmlUnescape(s) ==
  IF s = <<>> THEN <<>>
  ELSE IF Head(s) # "&" THEN <<Head(s)>> \o HtmlUnescape(Tail(s))
  ELSE LET n == CharrefLen(Tail(s))
       IN IF n = 0 THEN <<"&">> \o HtmlUnescape(Tail(s))
          ELSE ReplaceCharref(SubSeq(s, 2, n + 1)) \o HtmlUnescape(Drop(s, n + 1))

-----------------------------------------------------------------------------
(* JSONsafestring: json.dumps and json.loads of a text *)

\* json.encoder.ESCAPE_DCT with ensure_ascii: what a character is written as
JsonEscapeChar(c) ==
  CASE c = "\"" -> <<"\\", "\"">>
    [] c = "\\" -> <<"\\", "\\">>
    [] c = "\n" -> <<"\\", "n">>
    [] c = "\r" -> <<"\\", "r">>
    [] c = "\t" -> <<"\\", "t">>
    [] c = "\f" -> <<"\\", "f">>
    [] c = "U+2028" -> <<"\\", "u", "2", "0", "2", "8">>
    [] c = "U+226A" -> <<"\\", "u", "2", "2", "6", "a">>
    [] c = "U+FFFD" -> <<"\\", "u", "f", "f", "f", "d">>
    [] OTHER -> <<c>>

RECURSIVE JsonEscapeChars(_)
JsonEscapeChars(s) ==
  IF s = <<>> THEN <<>> ELSE JsonEscapeChar(Head(s)) \o JsonEscapeChars(Tail(s))

\* json.dumps(data) of a str: the quoted literal
JsonDumps(s) == <<"\"">> \o JsonEscapeChars(s) \o <<"\"">>

\* json.decoder.WHITESPACE
JsonSpace == {" ", "\t", "\n", "\r"}

\* the characters strict parsing refuses inside a literal
JsonControl == {"\t", "\n", "\r", "\f"}

\* json.decoder.BACKSLASH
JsonBackslash(c) ==
  CASE c = "\"" -> "\""
    [] c = "\\" -> "\\"
    [] c = "/" -> "/"
    [] c = "b" -> "U+0008"
    [] c = "f" -> "\f"
    [] c = "n" -> "\n"
    [] c = "r" -> "\r"
    [] c = "t" -> "\t"

\* the character of a \uXXXX escape, for the characters of the model
JsonUnicode(h) ==
  LET n == NumVal(h, 16)
  IN CASE h \in {<<"2", "0", "2", "8">>} -> "U+2028"
       [] h \in {<<"2", "2", "6", "a">>, <<"2", "2", "6", "A">>} -> "U+226A"
       [] HasChr(n) -> Chr(n)
       [] OTHER -> "U+FFFD"

\* json.decoder.py_scanstring from just after the opening quote: the record
\* [ok, text, rest], rest being what follows the closing quote
RECURSIVE ScanString(_)
ScanString(s) ==
  LET bad == [ok |-> FALSE, text |-> <<>>, rest |-> <<>>]
  IN IF s = <<>> THEN bad
     ELSE IF Head(s) = "\"" THEN [ok |-> TRUE, text |-> <<>>, rest |-> Tail(s)]
     ELSE IF Head(s) \in JsonControl THEN bad
     ELSE IF Head(s) # "\\"
          THEN LET r == ScanString(Tail(s))
               IN IF r.ok THEN [r EXCEPT !.text = <<Head(s)>> \o r.text] ELSE bad
     ELSE IF Len(s) < 2 THEN bad
     ELSE IF s[2] = "u"
          THEN IF Len(s) >= 6 /\ \A i \in 3..6 : IsHex(s[i])
               THEN LET r == ScanString(Drop(s, 6))
                    IN IF r.ok
                       THEN [r EXCEPT !.text = <<JsonUnicode(SubSeq(s, 3, 6))>> \o r.text]
                       ELSE bad
               ELSE bad
     ELSE IF s[2] \in {"\"", "\\", "/", "b", "f", "n", "r", "t"}
          THEN LET r == ScanString(Drop(s, 2))
               IN IF r.ok THEN [r EXCEPT !.text = <<JsonBackslash(s[2])>> \o r.text] ELSE bad
     ELSE bad

JsonSkip(s) == Drop(s, RunLen(s, JsonSpace))

\* json.loads(data): a literal gives its text and an empty object gives a
\* dict (the model's texts spell no other JSON value); anything else, and
\* anything after the value, is a JSONDecodeError
JsonLoads(s) ==
  LET t == JsonSkip(s)
  IN IF t = <<>> THEN Raise("JSONDecodeError")
     ELSE IF Head(t) = "\""
          THEN LET r == ScanString(Tail(t))
               IN IF r.ok /\ JsonSkip(r.rest) = <<>> THEN Str(r.text)
                  ELSE Raise("JSONDecodeError")
     ELSE IF Head(t) = "{"
          THEN LET u == JsonSkip(Tail(t))
               IN IF u # <<>> /\ Head(u) = "}" /\ JsonSkip(Tail(u)) = <<>> THEN Dict
                  ELSE Raise("JSONDecodeError")
     ELSE Raise("JSONDecodeError")

-----------------------------------------------------------------------------
(* URLqueryargumentsafestring: urllib.parse.quote_plus and unquote_plus *)

\* urllib.parse._ALWAYS_SAFE
AlwaysSafe == Digits \cup Letters \cup {"_", ".", "-", "~"}

HexByte(n) == <<"%", HexDigits[(n \div 16) + 1], HexDigits[(n % 16) + 1]>>

\* the UTF-8 bytes of a character, percent-encoded
QuoteChar(c) ==
  CASE c \in AlwaysSafe -> <<c>>
    [] c = "U+2028" -> HexByte(226) \o HexByte(128) \o HexByte(168)
    [] c = "U+226A" -> HexByte(226) \o HexByte(137) \o HexByte(170)
    [] c = "U+FFFD" -> HexByte(239) \o HexByte(191) \o HexByte(189)
    [] OTHER -> HexByte(Ord(c))

RECURSIVE Quote(_, _)
Quote(s, safe) ==
  IF s = <<>> THEN <<>>
  ELSE (IF Head(s) \in safe THEN <<Head(s)>> ELSE QuoteChar(Head(s)))
       \o Quote(Tail(s), safe)

\* quote_plus(data): a space is kept by quote and then written "+"
QuotePlus(s) ==
  IF Contains(s, " ") THEN Replace(Quote(s, {" "}), <<" ">>, <<"+">>)
  ELSE Quote(s, {})

\* the bytes at the head of s that are written %XX, as numbers
RECURSIVE PercentBytes(_)
PercentBytes(s) ==
  IF Len(s) >= 3 /\ s[1] = "%" /\ IsHex(s[2]) /\ IsHex(s[3])
  THEN <<HexVal(s[2]) * 16 + HexVal(s[3])>> \o PercentBytes(Drop(s, 3))
  ELSE <<>>

\* bytes.decode('utf-8', 'replace') of the bytes the model's texts hold: an
\* ASCII byte, the three bytes of a non-ASCII character of the model, and
\* U+FFFD for a byte that starts no character
RECURSIVE Utf8Decode(_)
Utf8Decode(b) ==
  IF b = <<>> THEN <<>>
  ELSE IF Head(b) < 128
       THEN (IF HasChr(Head(b)) THEN <<Chr(Head(b))>> ELSE <<"U+FFFD">>)
            \o Utf8Decode(Tail(b))
  ELSE IF StartsWith(b, <<226, 128, 168>>) THEN <<"U+2028">> \o Utf8Decode(Drop(b, 3))
  ELSE IF StartsWith(b, <<226, 137, 170>>) THEN <<"U+226A">> \o Utf8Decode(Drop(b, 3))
  ELSE IF StartsWith(b, <<239, 191, 189>>) THEN <<"U+FFFD">> \o Utf8Decode(Drop(b, 3))
  ELSE <<"U+FFFD">> \o Utf8Decode(Tail(b))

\* unquote(data): every %XX of two hex digits is a byte, the bytes are
\* decoded; a "%" that no two hex digits follow stays
RECURSIVE Unquote(_)
Unquote(s) ==
  IF s = <<>> THEN <<>>
  ELSE LET b == PercentBytes(s)
       IN IF b = <<>> THEN <<Head(s)>> \o Unquote(Tail(s))
          ELSE Utf8Decode(b) \o Unquote(Drop(s, 3 * Len(b)))

\* unquote_plus(data)
UnquotePlus(s) == Unquote(Replace(s, <<"+">>, <<" ">>))

-----------------------------------------------------------------------------
(* URLsafestring: str.splitlines and urllib.parse.urlparse(data).geturl() *)

\* the line boundaries of str.splitlines among the characters of the model
LineBoundaries == {"\n", "\r", "\f", "U+2028"}

\* the text kept whole, no line taken from it
WholeText(s) == s

\* data.splitlines()[0] of a text that is not empty
FirstLine(s) ==
  LET i == FirstIn(s, LineBoundaries)
  IN IF i = 0 THEN s ELSE SubSeq(s, 1, i - 1)

RECURSIVE Remove(_, _)
Remove(s, set) ==
  IF s = <<>> THEN <<>>
  ELSE (IF Head(s) \in set THEN <<>> ELSE <<Head(s)>>) \o Remove(Tail(s), set)

\* s.split(c, 1): <<before, after>> of the first c; <<s>> without one
SplitOnce(s, c) ==
  LET i == FirstIn(s, {c})
  IN IF i = 0 THEN <<s>> ELSE <<SubSeq(s, 1, i - 1), Drop(s, i)>>

\* urlparse(data).geturl() of a text with no ":", "/", "[" or "]", so one
\* without scheme or netloc: leading C0 controls and spaces are stripped,
\* tab, CR and LF removed, the text is split at the first "#", the first "?"
\* and the first ";", and put together again without the empty parts
GetUrl(s) ==
  LET url == Remove(Drop(s, RunLen(s, {" ", "\t", "\n", "\r", "\f"})),
                    {"\t", "\r", "\n"})
      f == SplitOnce(url, "#")
      q == SplitOnce(f[1], "?")
      p == SplitOnce(q[1], ";")
      params == IF Len(p) = 2 /\ p[2] # <<>> THEN <<";">> \o p[2] ELSE <<>>
      query == IF Len(q) = 2 /\ q[2] # <<>> THEN <<"?">> \o q[2] ELSE <<>>
      fragment == IF Len(f) = 2 /\ f[2] # <<>> THEN <<"#">> \o f[2] ELSE <<>>
  IN p[1] \o params \o query \o fragment

\* URLsafestring.escape(data) of a str
UrlEscape(s) ==
  GetUrl(IF Contains(s, "\n") \/ Contains(s, "\r") THEN FirstLine(s) ELSE s)

-----------------------------------------------------------------------------
(* EmailAddresssafestring: regex.search(data).group() *)

\* [a-zA-Z0-9._%+-]
EmailLocalChars == Letters \cup Digits \cup {".", "_", "%", "+", "-"}

\* [a-zA-Z0-9.-]
EmailDomainChars == Letters \cup Digits \cup {".", "-"}

\* the length of the run of local characters that ends just before index at
RECURSIVE LocalBefore(_, _)
LocalBefore(s, at) ==
  IF at <= 1 \/ s[at - 1] \notin EmailLocalChars THEN 0
  ELSE 1 + LocalBefore(s, at - 1)

\* the lengths j of a domain after the "@" at index at that a "." and two
\* letters follow, all inside the run of domain characters
EmailDomains(s, at) ==
  LET d == RunLen(Drop(s, at), EmailDomainChars)
  IN {j \in 1..d : /\ j + 3 <= d
                   /\ s[at + j + 1] = "."
                   /\ s[at + j + 2] \in Letters
                   /\ s[at + j + 3] \in Letters}

\* whether the pattern matches around the "@" at index at
EmailMatchesAt(s, at) ==
  s[at] = "@" /\ LocalBefore(s, at) > 0 /\ EmailDomains(s, at) # {}

\* the match around the "@" at index at: the whole local run, the longest
\* domain, the dot and up to four letters
EmailGroup(s, at) ==
  LET J == EmailDomains(s, at)
      j == CHOOSE x \in J : \A y \in J : y <= x
      n == RunLen(Drop(s, at + j + 1), Letters)
      tld == IF n > 4 THEN 4 ELSE n
  IN SubSeq(s, at - LocalBefore(s, at), at + j + 1 + tld)

\* EmailAddresssafestring.escape(data) of a str: the leftmost match; with no
\* match regex.search returns None and .group() raises AttributeError
EmailEscape(s) ==
  LET ats == {i \in 1..Len(s) : EmailMatchesAt(s, i)}
  IN IF ats = {} THEN Raise("AttributeError")
     ELSE Str(EmailGroup(s, CHOOSE i \in ats : \A k \in ats : i <= k))

-----------------------------------------------------------------------------
(* MYSQLsafestring.escape(sql, values) *)

\* the whitespace of str.split() among the characters of the model
Whitespace == {" ", "\t", "\n", "\r", "\f", "U+2028"}

\* sql.split(): the words between runs of whitespace
RECURSIVE Split(_)
Split(s) ==
  LET t == Drop(s, RunLen(s, Whitespace))
      i == FirstIn(t, Whitespace)
  IN IF t = <<>> THEN <<>>
     ELSE IF i = 0 THEN <<t>>
     ELSE <<SubSeq(t, 1, i - 1)>> \o Split(Drop(t, i))

\* " ".join(words)
RECURSIVE Join(_)
Join(words) ==
  IF words = <<>> THEN <<>>
  ELSE IF Len(words) = 1 THEN words[1]
  ELSE words[1] \o <<" ">> \o Join(Tail(words))

Marker == <<"%", "s">>

\* value.index('%s'), from 0; Len(w) when w holds no marker
RECURSIVE IndexOfMarker(_)
IndexOfMarker(w) ==
  IF Len(w) < 2 THEN Len(w)
  ELSE IF StartsWith(w, Marker) THEN 0
  ELSE 1 + IndexOfMarker(Tail(w))

HasMarker(w) == IndexOfMarker(w) < Len(w)

\* lines 99-102: one placeholder per word that holds a marker, with the
\* word's index and the index of the word's first marker
Placeholders(words) ==
  LET RECURSIVE From(_)
      From(i) ==
        IF i > Len(words) THEN <<>>
        ELSE (IF HasMarker(words[i])
              THEN <<[index |-> i, placeholder |-> IndexOfMarker(words[i])]>>
              ELSE <<>>) \o From(i + 1)
  IN From(1)

\* lines 110-115: the six replacements made on a value; '\"' is the quote
\* itself and '\/' is a backslash and a slash
EscapeItem(item) ==
  LET i1 == Replace(item, <<"\"">>, <<"\"">>)
      i2 == Replace(i1, <<"/">>, <<"\\", "/">>)
      i3 == Replace(i2, <<"\"">>, <<"\\">>)
      i4 == Replace(i3, <<"\n">>, <<>>)
      i5 == Replace(i4, <<"\r">>, <<>>)
  IN Replace(i5, <<"\t">>, <<>>)

\* lines 118-122: the word of each placeholder becomes its text before the
\* marker, then the escaped value, in quotes
Substitute(words, places, items) ==
  [w \in 1..Len(words) |->
     IF \E i \in 1..Len(places) : places[i].index = w
     THEN LET i == CHOOSE k \in 1..Len(places) : places[k].index = w
          IN <<"'">> \o SubSeq(words[w], 1, places[i].placeholder)
             \o EscapeItem(items[i]) \o <<"'">>
     ELSE words[w]]

\* MYSQLsafestring.escape(sql, values), values a tuple of str
MysqlEscape(sql, vals) ==
  LET words == Split(sql)
      places == Placeholders(words)
  IN IF Len(vals) # Len(places) THEN Raise("ValueError")
     ELSE Str(Join(Substitute(words, places, vals)))

-----------------------------------------------------------------------------
(* The classes: escape and unescape of each, __upgrade__, __add__, __new__ *)

\* c.escape(self, data) called with one argument: a str, or what the
\* unescape of another class returned
Escape(c, d) ==
  CASE c = "Basesafestring" -> Raise("NotImplementedError")
    [] c = "MYSQLsafestring" -> Raise("TypeError")
    [] c = "HTMLsafestring" ->
         IF d.type = "dict" THEN Raise("AttributeError") ELSE Str(HtmlEscape(d.chars))
    [] c = "JSONsafestring" ->
         IF d.type = "dict" THEN Raise("TypeError") ELSE Str(JsonDumps(d.chars))
    [] c = "URLqueryargumentsafestring" ->
         IF d.type = "dict" THEN Raise("TypeError") ELSE Str(QuotePlus(d.chars))
    [] c = "URLsafestring" ->
         IF d.type = "dict" THEN Bytes ELSE Str(UrlEscape(d.chars))
    [] c = "EmailAddresssafestring" ->
         IF d.type = "dict" THEN Raise("TypeError") ELSE EmailEscape(d.chars)

\* c.unescape(self, data) of a text; MYSQLsafestring defines none and
\* inherits the one of Basesafestring
Unescape(c, s) ==
  CASE c \in {"Basesafestring", "MYSQLsafestring"} -> Raise("NotImplementedError")
    [] c = "HTMLsafestring" -> Str(HtmlUnescape(s))
    [] c = "JSONsafestring" -> JsonLoads(s)
    [] c = "URLqueryargumentsafestring" -> Str(UnquotePlus(s))
    [] c \in {"URLsafestring", "EmailAddresssafestring"} -> Str(s)

\* Basesafestring.__upgrade__(self, other)
Upgrade(me, x) ==
  IF x.type = me.type THEN x
  ELSE IF IsSafestring(x)
       THEN LET otherdata == Unescape(x.type, x.chars)
            IN IF Raised(otherdata) THEN otherdata ELSE Escape(me.type, otherdata)
  ELSE Escape(me.type, Str(x.chars))

\* Basesafestring.__new__(cls, data, **kwargs); kw is "absent" when the call
\* passes no unsafe keyword, else the value it passes
BaseNew(c, s, kw) ==
  IF kw # "absent"
  THEN LET e == Escape(c, Str(s))
       IN IF Raised(e) THEN e ELSE Inst(c, e.chars)
  ELSE Inst(c, s)

\* MYSQLsafestring.__new__(cls, sql, values, **kwargs): both branches escape
MysqlNew(sql, vals, kw) ==
  LET e == MysqlEscape(sql, vals)
  IN IF Raised(e) THEN e ELSE BaseNew("MYSQLsafestring", e.chars, "absent")

\* c(data): the call __add__ makes, one positional argument and no keyword
Call(c, s) ==
  IF c = "MYSQLsafestring" THEN Raise("TypeError") ELSE BaseNew(c, s, "absent")

\* Basesafestring.__add__(self, other): ''.join refuses bytes
Add(me, x) ==
  LET u == Upgrade(me, x)
  IN IF Raised(u) THEN u
     ELSE IF u.type = "bytes" THEN Raise("TypeError")
     ELSE Call(me.type, me.chars \o u.chars)

-----------------------------------------------------------------------------
(* Basesafestring.format: str.format over the upgraded arguments *)

\* format(value, ''): a str is itself, a safestring goes through __str__,
\* which Basesafestring refuses, and the empty bytes object prints as b''
FormatValue(v) ==
  CASE v.type = "Basesafestring" -> Raise("NotImplementedError")
    [] v.type = "bytes" -> Str(<<"b", "'", "'">>)
    [] OTHER -> Str(v.chars)

\* the argument a replacement field names: the next positional one for an
\* empty name, the numbered one for digits, else the keyword of that name
\* (the model's templates hold no ".", "[", "!" or ":")
GetField(name, posit, named, auto) ==
  IF name = <<>> \/ \A i \in 1..Len(name) : name[i] \in Digits
  THEN LET idx == IF name = <<>> THEN auto ELSE NumVal(name, 10)
       IN IF idx >= Len(posit) THEN Raise("IndexError") ELSE posit[idx + 1]
  ELSE IF \E i \in 1..Len(named) : named[i].key = name
       THEN named[CHOOSE i \in 1..Len(named) : named[i].key = name].val
       ELSE Raise("KeyError")

\* str.format(template, *args, **kwargs), left to right; auto counts the
\* fields numbered automatically so far and mode is "none", "auto" or
\* "manual", the two ways of numbering not mixing
RECURSIVE StrFormat(_, _, _, _, _)
StrFormat(s, posit, named, auto, mode) ==
  LET then(text, rest, a, m) ==
        LET r == StrFormat(rest, posit, named, a, m)
        IN IF Raised(r) THEN r ELSE Str(text \o r.chars)
  IN IF s = <<>> THEN Str(<<>>)
     ELSE IF Head(s) = "}"
          THEN IF Len(s) >= 2 /\ s[2] = "}" THEN then(<<"}">>, Drop(s, 2), auto, mode)
               ELSE Raise("ValueError")
     ELSE IF Head(s) # "{" THEN then(<<Head(s)>>, Tail(s), auto, mode)
     ELSE IF Len(s) >= 2 /\ s[2] = "{" THEN then(<<"{">>, Drop(s, 2), auto, mode)
     ELSE LET close == FirstIn(Tail(s), {"{", "}"})
          IN IF close = 0 \/ s[close + 1] = "{" THEN Raise("ValueError")
             ELSE LET name == SubSeq(s, 2, close)
                      m == IF name = <<>> THEN "auto"
                           ELSE IF \A i \in 1..Len(name) : name[i] \in Digits
                                THEN "manual" ELSE mode
                      v == GetField(name, posit, named, auto)
                      f == IF Raised(v) THEN v ELSE FormatValue(v)
                  IN IF mode # "none" /\ m # mode THEN Raise("ValueError")
                     ELSE IF Raised(f) THEN f
                     ELSE then(f.chars, Drop(s, close + 1),
                               IF name = <<>> THEN auto + 1 ELSE auto, m)

\* the first exception among the objects of a sequence, None if none raised
FirstRaised(objs) ==
  LET bad == {i \in 1..Len(objs) : Raised(objs[i])}
  IN IF bad = {} THEN None ELSE objs[CHOOSE i \in bad : \A k \in bad : i <= k]

\* Basesafestring.format(self, *args, **kwargs): what str.format returns, a
\* plain str whatever the class of self; only for a template that is one
\* literal, with no brace in it, does CPython hand back the template itself
Format(me, posit, named) ==
  LET a == [i \in 1..Len(posit) |-> Upgrade(me, posit[i])]
      k == [i \in 1..Len(named) |->
              [key |-> named[i].key, val |-> Upgrade(me, named[i].val)]]
      kv == [i \in 1..Len(named) |-> k[i].val]
  IN IF Raised(FirstRaised(a)) THEN FirstRaised(a)
     ELSE IF Raised(FirstRaised(kv)) THEN FirstRaised(kv)
     ELSE IF me.chars # <<>> /\ ~Contains(me.chars, "{") /\ ~Contains(me.chars, "}")
          THEN me
     ELSE StrFormat(me.chars, a, k, 0, "none")

-----------------------------------------------------------------------------
(* Inputs *)

MaxPieces == 1

MaxOperands == 2

MaxLen == 3

MaxValues == 2

MaxSqlPieces == 3

MaxValueLen == 1

\* all texts over the characters chars of length n or less
RECURSIVE TextsOver(_, _)
TextsOver(chars, n) ==
  IF n = 0 THEN {<<>>}
  ELSE LET shorter == TextsOver(chars, n - 1)
       IN shorter \cup {<<c>> \o t : c \in chars, t \in {u \in shorter : Len(u) = n - 1}}

\* what raw text is made of in a run of constructors, + and format: the
\* characters markup reserves and the two kinds of replacement field
Pieces == {<<"<">>, <<"&">>, <<"{", "}">>, <<"{", "k", "}">>}

RECURSIVE PieceTexts(_)
PieceTexts(n) ==
  IF n = 0 THEN {<<>>}
  ELSE PieceTexts(n - 1) \cup {p \o t : p \in Pieces, t \in PieceTexts(n - 1)}

RawInputs == PieceTexts(MaxPieces)

Flags == {"absent", "True", "False"}

\* the classes whose constructor is Basesafestring.__new__
PlainClasses == Classes \ {"MYSQLsafestring"}

\* the six contexts: every class but the abstract base
Contexts == Classes \ {"Basesafestring"}

\* templates and value tuples for MYSQLsafestring inside a run
SqlInputs == {<<>>, <<"%", "s">>}

SqlValueInputs == {<<>>, <<<<"'">>>>, <<<<"k">>>>}

\* the objects a run can hand to + and to format: raw text, and safestrings
\* of every class, built with and without the unsafe keyword
Operands ==
  {Str(s) : s \in RawInputs}
  \cup {x \in {BaseNew(c, s, kw) : c \in PlainClasses, s \in RawInputs,
                                   kw \in {"absent", "True"}} : ~Raised(x)}
  \cup {x \in {MysqlNew(q, v, "absent") : q \in SqlInputs, v \in SqlValueInputs} :
          ~Raised(x)}

Safestrings == {x \in Operands : IsSafestring(x)}

\* the argument lists of a format call
ArgLists == {<<>>} \cup {<<x>> : x \in Operands}

KwargLists == {<<>>} \cup {<<[key |-> <<"k">>, val |-> x]>> : x \in Operands}

-----------------------------------------------------------------------------
(* The operations *)

Init ==
  /\ op = "start"
  /\ cls = ""
  /\ self = None
  /\ other = None
  /\ args = <<>>
  /\ kwargs = <<>>
  /\ data = <<>>
  /\ values = <<>>
  /\ flag = "absent"
  /\ result = None
  /\ cost = 0

\* c(s) or c(s, unsafe=kw) for a class other than MYSQLsafestring
New(c, s, kw) ==
  /\ op = "start"
  /\ op' = "new"
  /\ cls' = c
  /\ data' = s
  /\ flag' = kw
  /\ result' = BaseNew(c, s, kw)
  /\ cost' = cost + 1
  /\ UNCHANGED <<self, other, args, kwargs, values>>

\* MYSQLsafestring(sql, vals) or MYSQLsafestring(sql, vals, unsafe=kw)
NewMysql(sql, vals, kw) ==
  /\ op = "start"
  /\ op' = "new"
  /\ cls' = "MYSQLsafestring"
  /\ data' = sql
  /\ values' = vals
  /\ flag' = kw
  /\ result' = MysqlNew(sql, vals, kw)
  /\ cost' = cost + 1
  /\ UNCHANGED <<self, other, args, kwargs>>

\* result + x, the safestring the last operation returned being the receiver
AddStep(x) ==
  /\ IsSafestring(result)
  /\ cost < MaxOperands
  /\ op' = "add"
  /\ cls' = result.type
  /\ self' = result
  /\ other' = x
  /\ result' = Add(result, x)
  /\ cost' = cost + 1
  /\ args' = <<>>
  /\ kwargs' = <<>>
  /\ data' = <<>>
  /\ values' = <<>>
  /\ flag' = "absent"

\* result.format(*a, **k)
FormatStep(a, k) ==
  /\ IsSafestring(result)
  /\ cost + Len(a) + Len(k) <= MaxOperands
  /\ op' = "format"
  /\ cls' = result.type
  /\ self' = result
  /\ other' = None
  /\ args' = a
  /\ kwargs' = k
  /\ result' = Format(result, a, k)
  /\ cost' = cost + Len(a) + Len(k)
  /\ data' = <<>>
  /\ values' = <<>>
  /\ flag' = "absent"

\* c.escape(c, s), the call the constructors make
EscapeCall(c, s) ==
  /\ op = "start"
  /\ op' = "escape"
  /\ cls' = c
  /\ data' = s
  /\ result' = Escape(c, Str(s))
  /\ cost' = cost + 1
  /\ UNCHANGED <<self, other, args, kwargs, values, flag>>

\* MYSQLsafestring.escape(cls, sql, vals)
MysqlEscapeCall(sql, vals) ==
  /\ op = "start"
  /\ op' = "escape"
  /\ cls' = "MYSQLsafestring"
  /\ data' = sql
  /\ values' = vals
  /\ result' = MysqlEscape(sql, vals)
  /\ cost' = cost + 1
  /\ UNCHANGED <<self, other, args, kwargs, flag>>

\* x.unescape(x) for a safestring x, the call __upgrade__ makes
UnescapeCall(x) ==
  /\ op = "start"
  /\ op' = "unescape"
  /\ cls' = x.type
  /\ self' = x
  /\ result' = Unescape(x.type, x.chars)
  /\ cost' = cost + 1
  /\ UNCHANGED <<other, args, kwargs, data, values, flag>>

\* c.unescape of the text c.escape has just returned
RoundTrip ==
  /\ op = "escape"
  /\ result.type = "str"
  /\ op' = "roundtrip"
  /\ self' = Inst(cls, result.chars)
  /\ result' = Unescape(cls, result.chars)
  /\ UNCHANGED <<cls, other, args, kwargs, data, values, flag, cost>>

Next ==
  \/ \E c \in PlainClasses, s \in RawInputs, kw \in Flags : New(c, s, kw)
  \/ \E q \in SqlInputs, v \in SqlValueInputs, kw \in Flags : NewMysql(q, v, kw)
  \/ \E x \in Operands : AddStep(x)
  \/ \E a \in ArgLists, k \in KwargLists : FormatStep(a, k)
  \/ \E c \in PlainClasses, s \in RawInputs : EscapeCall(c, s)
  \/ \E x \in Safestrings : UnescapeCall(x)

Spec == Init /\ [][Next]_vars

-----------------------------------------------------------------------------
(* The escape routines on their own: every text over the characters that
   matter to a context, up to MaxLen characters *)

HtmlChars == {"&", "<", "'", "l", "t", ";"}

JsonChars == {"\"", "\\", "\n", "/", "n", "k"}

QueryChars == {" ", "+", "%", "2", "B", "&"}

UrlChars == {"k", "?", "#", "\n", "\r", "U+2028"}

HtmlTexts == TextsOver(HtmlChars, MaxLen)

JsonTexts == TextsOver(JsonChars, MaxLen)

QueryTexts == TextsOver(QueryChars, MaxLen)

UrlTexts == TextsOver(UrlChars, MaxLen)

EscClasses ==
  {"HTMLsafestring", "JSONsafestring", "URLqueryargumentsafestring", "URLsafestring"}

EscTexts(c) ==
  CASE c = "HTMLsafestring" -> HtmlTexts
    [] c = "JSONsafestring" -> JsonTexts
    [] c = "URLqueryargumentsafestring" -> QueryTexts
    [] c = "URLsafestring" -> UrlTexts

NextEsc ==
  \/ \E c \in EscClasses : \E s \in EscTexts(c) : EscapeCall(c, s)
  \/ RoundTrip
  \/ \E c \in EscClasses : \E s \in EscTexts(c) : UnescapeCall(Inst(c, s))

SpecEsc == Init /\ [][NextEsc]_vars

-----------------------------------------------------------------------------
(* MYSQLsafestring on its own: templates of up to MaxSqlPieces pieces and
   tuples of up to MaxValues values of up to MaxValueLen characters *)

SqlPieces == {<<"%", "s">>, <<" ">>, <<",">>, <<"a">>}

RECURSIVE SqlTexts(_)
SqlTexts(n) ==
  IF n = 0 THEN {<<>>}
  ELSE SqlTexts(n - 1) \cup {p \o t : p \in SqlPieces, t \in SqlTexts(n - 1)}

ValueChars == {"'", "\"", "/", "\n", "a"}

RECURSIVE Tuples(_, _)
Tuples(items, n) ==
  IF n = 0 THEN {<<>>}
  ELSE Tuples(items, n - 1) \cup {<<i>> \o t : i \in items, t \in Tuples(items, n - 1)}

SqlTemplates == SqlTexts(MaxSqlPieces)

SqlValues == Tuples(TextsOver(ValueChars, MaxValueLen), MaxValues)

NextSql ==
  \/ \E q \in SqlTemplates, v \in SqlValues : MysqlEscapeCall(q, v)
  \/ \E q \in SqlTemplates, v \in SqlValues, kw \in Flags : NewMysql(q, v, kw)

SpecSql == Init /\ [][NextSql]_vars

-----------------------------------------------------------------------------
(* Claims on the escape routines (SpecEsc) *)

RoundTripContexts == {"HTMLsafestring", "URLqueryargumentsafestring", "JSONsafestring"}

\* C8: for HTMLsafestring, URLqueryargumentsafestring and JSONsafestring and
\* every text x, unescape(escape(x)) is x again: whenever unescape has been
\* applied to what escape returned for the text data, it returns data.
C8_RoundTrip ==
  (op = "roundtrip" /\ cls \in RoundTripContexts) => result = Str(data)

\* C8 happens: "&lt", which html.unescape reads as "<", was escaped to
\* "&amp;lt" and came back as "&lt"
C8_Witness ==
  /\ op = "roundtrip"
  /\ cls = "HTMLsafestring"
  /\ data = <<"&", "l", "t">>
  /\ self.chars = <<"&", "a", "m", "p", ";", "l", "t">>
  /\ result = Str(data)

Breaks == {"\n", "\r"}

\* the part of a text before its first newline or carriage return
BeforeBreak(s) ==
  LET i == FirstIn(s, Breaks)
  IN IF i = 0 THEN s ELSE SubSeq(s, 1, i - 1)

\* what may follow the first line break of an input
UrlTails == {<<>>} \cup {<<c>> : c \in UrlChars}

\* C9: URLsafestring.escape uses only what precedes the first newline or
\* carriage return of its input: the result holds no newline and no carriage
\* return; it is the same whichever of the two the break is and whatever
\* follows it; and it is the escape of the part before the break alone when
\* that part holds no other line boundary.  URLsafestring.unescape returns
\* its argument unchanged.
C9_UrlFirstLine ==
  /\ (op = "escape" /\ cls = "URLsafestring") =>
       /\ result.type = "str"
       /\ \A b \in Breaks : ~Contains(result.chars, b)
       /\ FirstIn(data, Breaks) # 0 =>
            /\ \A b \in Breaks, t \in UrlTails :
                 result = Escape(cls, Str(BeforeBreak(data) \o <<b>> \o t))
            /\ FirstIn(BeforeBreak(data), LineBoundaries) = 0 =>
                 result = Escape(cls, Str(BeforeBreak(data)))
  /\ (op \in {"unescape", "roundtrip"} /\ cls = "URLsafestring") =>
       result = Str(self.chars)

\* C9 happens: of "k", a newline and "k" only the first "k" is left
C9_Witness ==
  /\ op = "escape"
  /\ cls = "URLsafestring"
  /\ data = <<"k", "\n", "k">>
  /\ result = Str(<<"k">>)

-----------------------------------------------------------------------------
(* Claims on constructors, + and format (Spec) *)

\* the text t starts with a character reference: "&", a name or a number,
\* and the ";" that ends it
BeginsReference(t) ==
  LET n == RunLen(Tail(t), Letters \cup Digits \cup {"#"})
  IN n > 0 /\ Len(t) >= n + 2 /\ t[n + 2] = ";"

\* no raw < > " ' and every "&" begins a character reference
MarkupSafe(s) ==
  \A i \in 1..Len(s) :
    /\ s[i] \notin {"<", ">", "\"", "'"}
    /\ s[i] = "&" => BeginsReference(Drop(s, i - 1))

Count(s, c) == Cardinality({i \in 1..Len(s) : s[i] = c})

\* what content has to be like to be emitted as it is in the context of
\* class c: markup as above, a quoted literal, a query argument of unreserved
\* characters and escapes, a URL on one line, an address and nothing else, a
\* statement whose quote delimiters pair up
SafeFor(c, s) ==
  CASE c = "HTMLsafestring" -> MarkupSafe(s)
    [] c = "JSONsafestring" -> JsonLoads(s).type = "str"
    [] c = "URLqueryargumentsafestring" ->
         \A i \in 1..Len(s) : s[i] \in AlwaysSafe \cup {"%", "+"}
    [] c = "URLsafestring" -> \A b \in Breaks : ~Contains(s, b)
    [] c = "EmailAddresssafestring" -> EmailEscape(s) = Str(s)
    [] c = "MYSQLsafestring" -> Count(s, "'") % 2 = 0 /\ ~Contains(s, "\"")

\* C1: in every state reached by constructors, + and format, each value of
\* a context class (the receiver, the operand, the result) holds content
\* that is safe for its context.
C1_TaggedContentSafe ==
  \A v \in {self, other, result} : v.type \in Contexts => SafeFor(v.type, v.chars)

\* C1 fails: MYSQLsafestring("%s", ("'",)) is a MYSQLsafestring that holds the
\* quote of the value between the two delimiters
C1_QuoteOfValueKept ==
  /\ op = "new"
  /\ cls = "MYSQLsafestring"
  /\ data = Marker
  /\ values = <<<<"'">>>>
  /\ result = Inst("MYSQLsafestring", <<"'", "'", "'">>)

\* C2: for a receiver a of a context class C and an operand v that is of
\* class C or a plain str, a + v is of class C and holds the content of a
\* followed by the content of v as it is when v is of class C, and by
\* C.escape(str(v)), whenever that escape gives a text, when v is a plain str.
C2_CombineSameContext ==
  (op = "add" /\ cls \in Contexts /\ other.type \in {cls, "str"}) =>
    LET u == IF other.type = cls THEN other ELSE Escape(cls, Str(other.chars))
    IN u.type \in {cls, "str"} => result = Inst(cls, self.chars \o u.chars)

\* C2 fails: a MYSQLsafestring plus a MYSQLsafestring raises TypeError
C2_MysqlPlusMysqlRaises ==
  /\ op = "add"
  /\ cls = "MYSQLsafestring"
  /\ other.type = "MYSQLsafestring"
  /\ result = Raise("TypeError")

\* the failures the escape routines announce: the content of a JSON value is
\* not a quoted literal, or the text given to EmailAddresssafestring holds
\* no address
AnnouncedFailure(c, v) ==
  LET d == Unescape(v.type, v.chars)
  IN \/ v.type = "JSONsafestring" /\ d.type # "str"
     \/ c = "EmailAddresssafestring" /\ d.type = "str" /\ Raised(EmailEscape(d.chars))

\* C3: for a receiver a of a context class C and an operand v of another
\* context class D, a + v is of class C and holds the content of a followed
\* by C.escape(D.unescape(content of v)), unless one of the two routines
\* announces a failure.
C3_CombineAcrossContexts ==
  (op = "add" /\ cls \in Contexts /\ other.type \in Contexts \ {cls}
     /\ ~AnnouncedFailure(cls, other)) =>
    LET d == Unescape(other.type, other.chars)
    IN /\ result.type = cls
       /\ d.type = "str"
       /\ result.chars = self.chars \o Escape(cls, d).chars

\* C3 fails: a MYSQLsafestring plus an HTMLsafestring raises TypeError
C3_MysqlPlusHtmlRaises ==
  /\ op = "add"
  /\ cls = "MYSQLsafestring"
  /\ other = Inst("HTMLsafestring", <<"<">>)
  /\ result = Raise("TypeError")

\* C4: a constructor escapes exactly when the unsafe flag is set: with
\* unsafe=True the content is C.escape(data), with unsafe=False or without
\* the keyword it is data as given.
C4_ConstructEscapesWhenFlagged ==
  (op = "new" /\ cls \in Contexts \cap PlainClasses) =>
    IF flag = "True"
    THEN LET e == Escape(cls, Str(data))
         IN result = IF Raised(e) THEN e ELSE Inst(cls, e.chars)
    ELSE result = Inst(cls, data)

\* C4 fails: HTMLsafestring("<", unsafe=False) holds "&lt;"
C4_EscapedThoughFlagFalse ==
  /\ op = "new"
  /\ cls = "HTMLsafestring"
  /\ flag = "False"
  /\ data = <<"<">>
  /\ result = Inst("HTMLsafestring", <<"&", "l", "t", ";">>)

\* C5: for a template t of a context class C, t.format(*args, **kwargs)
\* substitutes the upgrade to C of every positional and every keyword
\* argument, and what it returns is of class C.
C5_FormatKeepsContext ==
  (op = "format" /\ cls \in Contexts) =>
    LET a == [i \in 1..Len(args) |-> Upgrade(self, args[i])]
        k == [i \in 1..Len(kwargs) |->
                [key |-> kwargs[i].key, val |-> Upgrade(self, kwargs[i].val)]]
        f == StrFormat(self.chars, a, k, 0, "none")
    IN ((\A i \in 1..Len(a) : ~Raised(a[i])) /\ (\A i \in 1..Len(k) : ~Raised(k[i].val))
          /\ ~Raised(f)) =>
         result = Inst(cls, f.chars)

\* C5 fails: HTMLsafestring("{}").format("<") is the plain str "&lt;"
C5_FormatReturnsPlainStr ==
  /\ op = "format"
  /\ self = Inst("HTMLsafestring", <<"{", "}">>)
  /\ args = <<Str(<<"<">>)>>
  /\ kwargs = <<>>
  /\ result = Str(<<"&", "l", "t", ";">>)

\* C10: every operation on Basesafestring itself, a constructor call with or
\* without unsafe, + with any operand, format with or without arguments,
\* escape and unescape, raises NotImplementedError and returns no value.
C10_BaseRaisesNotImplemented ==
  (cls = "Basesafestring" /\ op \in {"new", "add", "format", "escape", "unescape"}) =>
    result = Raise("NotImplementedError")

\* C10 fails: a Basesafestring plus a Basesafestring is a Basesafestring
C10_BasePlusBaseReturns ==
  /\ op = "add"
  /\ cls = "Basesafestring"
  /\ other.type = "Basesafestring"
  /\ result.type = "Basesafestring"

-----------------------------------------------------------------------------
(* Claims on MYSQLsafestring (SpecSql) *)

\* the number of markers "%s" in a template, read from left to right
RECURSIVE CountMarkers(_)
CountMarkers(t) ==
  IF t = <<>> THEN 0
  ELSE IF StartsWith(t, Marker) THEN 1 + CountMarkers(Drop(t, 2))
  ELSE CountMarkers(Tail(t))

\* the characters of a value that are to be neutralized
Neutralized == {"'", "\"", "/", "\\", "\n", "\r", "\t"}

\* out is the template t with each marker replaced, in order and at its own
\* place, by the value of vals it stands for between two quote delimiters;
\* between the delimiters there is no quote, and the value's other
\* characters are all there
RECURSIVE Spliced(_, _, _)
Spliced(t, vals, out) ==
  IF t = <<>> THEN out = <<>>
  ELSE IF StartsWith(t, Marker)
       THEN /\ vals # <<>>
            /\ out # <<>>
            /\ Head(out) = "'"
            /\ LET close == FirstIn(Tail(out), {"'"})
               IN /\ close # 0
                  /\ LET inside == SubSeq(out, 2, close)
                     IN /\ ~Contains(inside, "\"")
                        /\ Remove(inside, Neutralized) = Remove(Head(vals), Neutralized)
                  /\ Spliced(Drop(t, 2), Tail(vals), Drop(out, close + 1))
       ELSE /\ out # <<>>
            /\ Head(out) = Head(t)
            /\ Spliced(Tail(t), vals, Tail(out))

\* C6: for a template and as many values as it has markers, escape returns
\* the template with each marker replaced at its own place by its value
\* between quote delimiters, the text outside the markers kept, and no quote
\* of a value left in the output.
C6_MarkersReplacedInPlace ==
  (op = "escape" /\ cls = "MYSQLsafestring" /\ CountMarkers(data) = Len(values)) =>
    /\ result.type = "str"
    /\ Spliced(data, values, result.chars)

\* C6 fails: escape("%s", ("'",)) returns three quotes, the one of the value
\* between the two delimiters
C6_QuoteOfValueLeft ==
  /\ op = "escape"
  /\ cls = "MYSQLsafestring"
  /\ data = Marker
  /\ values = <<<<"'">>>>
  /\ result = Str(<<"'", "'", "'">>)

\* C7: escape raises the count-mismatch ValueError exactly when the number
\* of markers in the template differs from the number of values, markers
\* that no whitespace separates included; a call that fails returns no text.
C7_CountMismatch ==
  (op \in {"escape", "new"} /\ cls = "MYSQLsafestring") =>
    (result = Raise("ValueError") <=> CountMarkers(data) # Len(values))

\* C7 fails: escape("%s,%s", ("a", "a")), two markers and two values, raises
\* ValueError
C7_TwoMarkersInOneWord ==
  /\ op = "escape"
  /\ cls = "MYSQLsafestring"
  /\ data = Marker \o <<",">> \o Marker
  /\ values = <<<<"a">>, <<"a">>>>
  /\ result = Raise("ValueError")

=============================================================================
